---- MODULE Spec2Model ----
(***************************************************************************)
(* Hostel-Inventory front end: the resource controllers (useAssets,        *)
(* useRooms, useDamageTracking), the authentication controller (useAuth),  *)
(* the user-management page and the password-reset page, as one state      *)
(* machine.  The router mounts one page at a time: Init chooses the        *)
(* mounted page, and every handler is an action of that page.  An async    *)
(* handler is split at its await: the part up to the await puts a request  *)
(* in flight (net), the server handles requests in any order, and the      *)
(* continuation runs when the response is delivered.                       *)
(*                                                                         *)
(* Handlers are modelled as the controller exposes them: the browser's     *)
(* constraint validation (required, min) and disabled submit buttons are   *)
(* not guards of the handlers.                                             *)
(***************************************************************************)
EXTENDS Integers, Sequences, FiniteSets, TLC

(***************************************************************************)
(* Bounds of the model.                                                    *)
(***************************************************************************)
\* requests the user triggers (submit, delete, status change, logout) per
\* load of the assets, rooms, damage or dashboard page
MaxRequests == 1
\* role changes and deletions the Warden triggers per load of the
\* user-management page
MaxUserRequests == 2
\* login attempts per load of the sign-in page
MaxLogins == 2
\* registration attempts per load of the sign-up page
MaxRegistrations == 2
\* requests in flight at once when the user triggers another one
MaxInFlight == 2
\* requests the user triggers in one visit of the reset flow, which takes
\* three to complete
MaxResetRequests == 3
\* last instant of the clock, in ticks of TickMs
MaxClock == 5

(***************************************************************************)
(* Program constants.                                                      *)
(***************************************************************************)
\* handleLogin: setTimeout(() => navigate('/dashboard'), 1500)
LoginDelay == 1500
\* handleResetPassword: setTimeout(() => navigate('/signin'), 2000)
ResetDelay == 2000
\* handleRegister: setTimeout(() => navigate('/signin'), 2000)
RegisterDelay == 2000
\* handleResetPassword: newPassword.length < 4
MinPasswordLength == 4

\* the step of the clock, in ms: the difference of the two delays, so that
\* every due time falls on a tick
TickMs == ResetDelay - LoginDelay

(***************************************************************************)
(* State.                                                                  *)
(***************************************************************************)
VARIABLES
    page,           \* the page the router mounted for this page load
    location,       \* current route: the page's own path until navigate()
    loading,        \* the page's (or controller's) loading flag
    toast,          \* the page's toast state {show, message, type}
    net,            \* requests in flight, in the order they were issued
    issued,         \* number of user-triggered requests issued so far
    confirmAnswer,  \* what window.confirm returned last ("none" before)
    sent,           \* requests issued so far, as <<op, id>> (history)
    now,            \* the clock, in ms
    timers,         \* pending setTimeout callbacks {cb, due}
    \* ---- the server behind services/api.js
    server,         \* the page's collection as the server holds it
    srvVersion,     \* number of writes the server has applied
    nextId,         \* next identifier the server hands out
    me,             \* the identity of the session (GET /users/me/)
    \* ---- useAssets / useRooms
    items,          \* assets (useAssets) or rooms (useRooms)
    showForm,
    editingTarget,  \* editingAsset / editingRoom
    formData,
    lastList,       \* the list response delivered last (history)
    submitOk,       \* a submit's write call has succeeded (history)
    \* ---- UserManagement
    user,
    allUsers,
    \* ---- ForgotPassword
    step,
    email,
    code,
    newPassword,
    confirmPassword,
    verified,       \* a verify-code call has succeeded (history)
    \* ---- useAuth / SignIn
    error,
    storage,        \* localStorage: the value under 'user'
    loginAt,        \* when the first login call succeeded, -1 before (history)
    \* ---- useDamageTracking
    rooms,
    damageReports,
    selectedRoom,
    assetType,
    description,
    \* ---- Dashboard
    summary

pageVars == <<page, location, loading, toast, net, issued>>
srvVars == <<server, srvVersion, nextId, me>>
crudVars == <<items, showForm, editingTarget, formData, lastList, submitOk>>
usersVars == <<user, allUsers>>
resetVars == <<step, email, code, newPassword, confirmPassword, verified>>
authVars == <<error, storage, loginAt>>
damageVars == <<rooms, damageReports, selectedRoom, assetType, description>>
dashVars == <<summary>>
timeVars == <<now, timers>>
vars == <<pageVars, confirmAnswer, sent, timeVars, srvVars, crudVars,
          usersVars, resetVars, authVars, damageVars, dashVars>>

\* what the handlers of one page never touch: the state of the other pages
offCrud == <<sent, timeVars, me, usersVars, resetVars, authVars, damageVars,
            dashVars>>
offUsers == <<timeVars, srvVersion, nextId, me, crudVars, resetVars, authVars,
              damageVars, dashVars>>
offReset == <<confirmAnswer, srvVars, crudVars, usersVars, authVars,
              damageVars, dashVars>>
offDamage == <<sent, timeVars, srvVersion, me, crudVars, usersVars,
               resetVars, authVars, dashVars>>
offAuth == <<confirmAnswer, sent, srvVars, crudVars, usersVars, resetVars,
             damageVars, dashVars>>
offDash == <<confirmAnswer, sent, timeVars, srvVars, crudVars, allUsers,
             resetVars, error, loginAt, damageVars>>

(***************************************************************************)
(* Values.                                                                 *)
(***************************************************************************)
NULL == [isNull |-> TRUE]
NoBody == [none |-> TRUE]
NoResp == [pending |-> TRUE]
NoToast == [show |-> FALSE, message |-> "", type |-> ""]

CrudPages == {"assets", "rooms"}

PathOf(p) == CASE p = "assets" -> "/assets"
               [] p = "rooms" -> "/rooms"
               [] p = "damage" -> "/damage-tracking"
               [] p = "users" -> "/user-management"
               [] p = "reset" -> "/forgot-password"
               [] p = "signup" -> "/signup"
               [] p = "dashboard" -> "/dashboard"
               [] OTHER -> "/signin"

\* useState defaults of formData, repeated in handleSubmit and handleCancel
DefaultForm(p) ==
    IF p = "assets"
    THEN [name |-> "", asset_type |-> "Bed", total_quantity |-> 1,
          condition |-> "Good"]
    ELSE [room_number |-> "", hostel_name |-> "", floor |-> "",
          capacity |-> 2]

\* JavaScript truthiness of a floor value: null, the number 0 and '' are falsy
\* ("null", "n:0", "n:1" are the JSON values null, 0, 1; "" and "1" are the
\* strings an input element yields)
Falsy(v) == v \in {"null", "n:0", ""}

\* showToast of the page: message with type (default 'success')
ShowToast(message, type) == [show |-> TRUE, message |-> message, type |-> type]

\* a request as axios issues it, with what the awaiting handler still holds
\* (notifier: the showToast it was given); resp is filled in when the server
\* has handled the request
Request(op, id, body, notifier) ==
    [op |-> op, id |-> id, body |-> body, notifier |-> notifier,
     resp |-> NoResp]

Remove(s, i) == SubSeq(s, 1, i - 1) \o SubSeq(s, i + 1, Len(s))

IsAuthFailure(r) == r.status = 401 \/ r.status = 403

\* err.response?.data?.error || fallback
ErrorOr(r, fallback) == IF r.error # "" THEN r.error ELSE fallback

(***************************************************************************)
(* The server (Django REST API behind services/api.js).                    *)
(***************************************************************************)
\* failures a call can end with: HTTP status (0: no response at all) and the
\* error field of the response body ("" when absent)
Failures ==
    {[status |-> 401, error |-> ""], [status |-> 403, error |-> ""],
     [status |-> 500, error |-> "Server says no"],
     [status |-> 0, error |-> ""]}

Fail(f) == [ok |-> FALSE, status |-> f.status, error |-> f.error,
            isArray |-> FALSE, data |-> <<>>, ver |-> 0]
\* 200 with the collection as the body
OkList(data, ver) == [ok |-> TRUE, status |-> 200, error |-> "",
                      isArray |-> TRUE, data |-> data, ver |-> ver]
\* 200 with a body that is not an array
OkOther(ver) == [ok |-> TRUE, status |-> 200, error |-> "",
                 isArray |-> FALSE, data |-> <<>>, ver |-> ver]

\* 200 with an object as the body
OkObject(obj) == [ok |-> TRUE, status |-> 200, error |-> "", isArray |-> FALSE,
                  data |-> <<>>, ver |-> 0, object |-> obj]

\* the bodies the register endpoint sends with a rejection: a flat error
\* field, a validation array per field (username, email), both, or no
\* detail at all; "" and <<>> stand for an absent field
RegisterErrorBodies ==
    {[error |-> "Registration is closed", username |-> <<>>, email |-> <<>>],
     [error |-> "", username |-> <<"This username is taken.">>,
      email |-> <<>>],
     [error |-> "", username |-> <<>>,
      email |-> <<"Enter a valid email address.">>],
     [error |-> "Registration is closed",
      username |-> <<"This username is taken.">>, email |-> <<>>],
     [error |-> "", username |-> <<>>, email |-> <<>>]}

\* a rejected register call: err.response.data is body
RegisterFail(body) ==
    [ok |-> FALSE, status |-> 400, error |-> body.error, isArray |-> FALSE,
     data |-> <<>>, ver |-> 0, body |-> body]

\* the responses a handler can receive for request r: the server's answer
\* once it has handled the request, a failure otherwise (a rejected or lost
\* request has no effect on the server) or, for a list request, a body that
\* is not an array
Outcomes(r) ==
    IF r.resp # NoResp THEN {r.resp}
    ELSE IF r.op = "register" THEN {RegisterFail(b) : b \in RegisterErrorBodies}
    ELSE {Fail(f) : f \in Failures}
         \cup (IF r.op \in {"list", "getRooms", "listReports"}
               THEN {OkOther(0)} ELSE {})

\* the stored form of a posted body: a floor typed into the form is a string,
\* the API stores and returns a number or null
StoreFloor(v) == CASE v = "" -> "null"
                   [] v = "1" -> "n:1"
                   [] OTHER -> v

Stored(p, id, body) ==
    IF p = "assets"
    THEN [id |-> id, name |-> body.name, asset_type |-> body.asset_type,
          total_quantity |-> body.total_quantity,
          condition |-> body.condition]
    ELSE [id |-> id, room_number |-> body.room_number,
          hostel_name |-> body.hostel_name, floor |-> StoreFloor(body.floor),
          capacity |-> body.capacity, asset_count |-> 0]

HasId(s, id) == \E k \in 1..Len(s) : s[k].id = id

ReplaceId(s, id, item) ==
    [k \in 1..Len(s) |-> IF s[k].id = id THEN item ELSE s[k]]

RECURSIVE DropId(_, _)
DropId(s, id) ==
    IF s = <<>> THEN <<>>
    ELSE IF Head(s).id = id THEN DropId(Tail(s), id)
    ELSE <<Head(s)>> \o DropId(Tail(s), id)

InitialServer(p) ==
    IF p = "assets"
    THEN {<<[id |-> 1, name |-> "Cot", asset_type |-> "Bed",
            total_quantity |-> 4, condition |-> "Good"]>>}
    ELSE {<<[id |-> 1, room_number |-> "101", hostel_name |-> "A",
             floor |-> f, capacity |-> 2, asset_count |-> 0]>> :
             f \in {"null", "n:0"}}

\* the server handles request i of a collection page successfully: getX,
\* createX, updateX, deleteX of services/api.js
ServeCrud(i) ==
    /\ page \in CrudPages
    /\ i \in 1..Len(net)
    /\ net[i].resp = NoResp
    /\ LET r == net[i] IN
       \/ /\ r.op = "list"
          /\ net' = [net EXCEPT ![i].resp = OkList(server, srvVersion)]
          /\ UNCHANGED <<server, srvVersion, nextId>>
       \/ /\ r.op = "create"
          /\ server' = Append(server, Stored(page, nextId, r.body))
          /\ nextId' = nextId + 1
          /\ srvVersion' = srvVersion + 1
          /\ net' = [net EXCEPT ![i].resp = OkOther(srvVersion')]
       \/ /\ r.op = "update"
          /\ HasId(server, r.id)
          /\ server' = ReplaceId(server, r.id, Stored(page, r.id, r.body))
          /\ srvVersion' = srvVersion + 1
          /\ net' = [net EXCEPT ![i].resp = OkOther(srvVersion')]
          /\ UNCHANGED nextId
       \/ /\ r.op = "delete"
          /\ HasId(server, r.id)
          /\ server' = DropId(server, r.id)
          /\ srvVersion' = srvVersion + 1
          /\ net' = [net EXCEPT ![i].resp = OkOther(srvVersion')]
          /\ UNCHANGED nextId
    /\ UNCHANGED <<page, location, loading, toast, issued, confirmAnswer,
                   crudVars, offCrud>>

(***************************************************************************)
(* useAssets / useRooms.                                                   *)
(***************************************************************************)
\* the view renders the handlers' controls once loading is false, and only
\* while the page is the current route
Rendered == location = PathOf(page) /\ ~loading

\* fetchAssets(showToast) / fetchRooms() up to the await
FetchRequest(notifier) == Request("list", 0, NoBody, notifier)

ItemsAfterFetchKeepsOld(r, old) == IF r.ok /\ r.isArray THEN r.data ELSE old

\* the list fetchAssets / fetchRooms sets: the body if the call succeeded
\* with an array, [] otherwise (not an array, or the catch block)
ItemsAfterFetch(r, old) == IF r.ok /\ r.isArray THEN r.data ELSE <<>>

LoadingAfterFetchClearedInTryOnly(r, current) == IF r.ok THEN FALSE ELSE current

\* the loading flag fetchAssets / fetchRooms leaves: setLoading(false) in the
\* finally block
LoadingAfterFetch(r, current) == FALSE

ToastAfterFetchWithoutNotifierCheck(r, notifier, current) ==
    IF ~r.ok /\ ~IsAuthFailure(r)
    THEN ShowToast("Failed to load assets", "error") ELSE current

\* the toast fetchAssets leaves: else if (showToast) showToast('Failed to
\* load assets', 'error') in the catch block; fetchRooms takes no notifier
ToastAfterFetch(r, notifier, current) ==
    IF ~r.ok /\ ~IsAuthFailure(r) /\ notifier
    THEN ShowToast("Failed to load assets", "error") ELSE current

\* fetchAssets / fetchRooms after the await: try, catch and finally
FetchItemsDone(i, r) ==
    /\ page \in CrudPages
    /\ i \in 1..Len(net)
    /\ net[i].op = "list"
    /\ r \in Outcomes(net[i])
    /\ /\ items' = ItemsAfterFetch(r, items)
       /\ location' = IF ~r.ok /\ IsAuthFailure(r) THEN "/signin"
                      ELSE location
       /\ toast' = ToastAfterFetch(r, net[i].notifier, toast)
       /\ lastList' = [kind |-> IF ~r.ok THEN "fail"
                                ELSE IF r.isArray THEN "array" ELSE "other",
                       ver |-> r.ver]
    /\ loading' = LoadingAfterFetch(r, loading)
    /\ net' = Remove(net, i)
    /\ UNCHANGED <<page, issued, confirmAnswer, showForm, editingTarget,
                   formData, submitOk, server, srvVersion, nextId, offCrud>>

\* the Add/Cancel toggle button of the page while the form is hidden:
\* setShowForm(true)
OpenForm ==
    /\ page \in CrudPages
    /\ Rendered
    /\ ~showForm
    /\ showForm' = TRUE
    /\ UNCHANGED <<page, location, loading, toast, net, issued,
                   confirmAnswer, items, editingTarget, formData, lastList,
                   submitOk, server, srvVersion, nextId, offCrud>>

\* values the form's inputs can deliver to handleChange, per field
ChangeInputs(p) ==
    IF p = "assets"
    THEN {<<"name", "Desk">>}
    ELSE {<<"floor", "1">>}

FormAfterChangeWithoutSpread(data, name, value) ==
    [DefaultForm(page) EXCEPT ![name] = value]

\* the object handleChange sets: {...formData, [e.target.name]:
\* e.target.value}
FormAfterChange(data, name, value) == [data EXCEPT ![name] = value]

\* handleChange(e), from an input of the form
HandleChange(name, value) ==
    /\ page \in CrudPages
    /\ Rendered
    /\ showForm
    /\ <<name, value>> \in ChangeInputs(page)
    /\ formData' = FormAfterChange(formData, name, value)
    /\ UNCHANGED <<page, location, loading, toast, net, issued,
                   confirmAnswer, items, showForm, editingTarget, lastList,
                   submitOk, server, srvVersion, nextId, offCrud>>

SubmitRequestAlwaysCreates(target, data) == Request("create", 0, data, TRUE)

\* the call handleSubmit makes: if (editingAsset) updateAsset(
\* editingAsset.id, formData) else createAsset(formData), and the same for
\* rooms
SubmitRequest(target, data) ==
    IF target # NULL THEN Request("update", target.id, data, TRUE)
    ELSE Request("create", 0, data, TRUE)

\* handleSubmit(e, showToast) up to the await: update when editing, create
\* otherwise, with the formData of the render the handler belongs to
HandleSubmit ==
    /\ page \in CrudPages
    /\ Rendered
    /\ showForm
    /\ issued < MaxRequests /\ Len(net) < MaxInFlight
    /\ net' = Append(net, SubmitRequest(editingTarget, formData))
    /\ issued' = issued + 1
    /\ UNCHANGED <<page, location, loading, toast, confirmAnswer, crudVars,
                   server, srvVersion, nextId, offCrud>>

SavedMessage(p, op) ==
    IF p = "assets"
    THEN (IF op = "update" THEN "Asset updated successfully!"
          ELSE "Asset created successfully!")
    ELSE (IF op = "update" THEN "Room updated successfully!"
          ELSE "Room created successfully!")

SaveErrorMessageGenericOnly(p, r) ==
    IF p = "assets" THEN "Error saving asset"
    ELSE "Error saving room: Unknown error"

\* the message of handleSubmit's catch block:
\* err.response?.data?.error || 'Error saving asset', and
\* 'Error saving room: ' + (err.response?.data?.error || 'Unknown error')
SaveErrorMessage(p, r) ==
    IF p = "assets" THEN ErrorOr(r, "Error saving asset")
    ELSE "Error saving room: " \o ErrorOr(r, "Unknown error")

SubmitResetKeepsTarget(p) ==
    [showForm |-> FALSE, editingTarget |-> editingTarget,
     formData |-> DefaultForm(p)]

\* what handleSubmit does to the form once the call has succeeded
SubmitReset(p) ==
    [showForm |-> FALSE, editingTarget |-> NULL, formData |-> DefaultForm(p)]

\* handleSubmit after the await: the rest of the try block, or the catch
HandleSubmitDone(i, r) ==
    /\ page \in CrudPages
    /\ i \in 1..Len(net)
    /\ net[i].op \in {"create", "update"}
    /\ r \in Outcomes(net[i])
    /\ IF r.ok
       THEN /\ toast' = ShowToast(SavedMessage(page, net[i].op), "success")
            /\ showForm' = SubmitReset(page).showForm
            /\ editingTarget' = SubmitReset(page).editingTarget
            /\ formData' = SubmitReset(page).formData
            /\ net' = Append(Remove(net, i), FetchRequest(page = "assets"))
            /\ submitOk' = TRUE
       ELSE /\ toast' = ShowToast(SaveErrorMessage(page, r), "error")
            /\ net' = Remove(net, i)
            /\ UNCHANGED <<showForm, editingTarget, formData, submitOk>>
    /\ UNCHANGED <<page, location, loading, issued, confirmAnswer, items,
                   lastList, server, srvVersion, nextId, offCrud>>

\* handleEdit(asset) / handleEdit(room), from the Edit button of a row
HandleEdit(k) ==
    /\ page \in CrudPages
    /\ Rendered
    /\ k \in 1..Len(items)
    /\ editingTarget' = items[k]
    /\ formData' =
         IF page = "assets"
         THEN [name |-> items[k].name, asset_type |-> items[k].asset_type,
               total_quantity |-> items[k].total_quantity,
               condition |-> items[k].condition]
         ELSE [room_number |-> items[k].room_number,
               hostel_name |-> items[k].hostel_name,
               floor |-> IF Falsy(items[k].floor) THEN ""
                         ELSE items[k].floor,
               capacity |-> items[k].capacity]
    /\ showForm' = TRUE
    /\ UNCHANGED <<page, location, loading, toast, net, issued,
                   confirmAnswer, items, lastList, submitOk, server,
                   srvVersion, nextId, offCrud>>

\* whether handleDelete goes on to the delete call, given what
\* window.confirm returned
DeleteProceeds(confirmed) == confirmed

\* handleDelete(id, showToast) up to the await, from the Delete button of a
\* row; confirmed is what window.confirm returns
HandleDelete(k, confirmed) ==
    /\ page \in CrudPages
    /\ Rendered
    /\ k \in 1..Len(items)
    /\ IF DeleteProceeds(confirmed)
       THEN /\ issued < MaxRequests /\ Len(net) < MaxInFlight
            /\ net' = Append(net, Request("delete", items[k].id, NoBody, TRUE))
            /\ issued' = issued + 1
       ELSE UNCHANGED <<net, issued>>
    /\ confirmAnswer' = (IF confirmed THEN "ok" ELSE "cancel")
    /\ UNCHANGED <<page, location, loading, toast, crudVars, server,
                   srvVersion, nextId, offCrud>>

DeleteReloadAlways(r) == <<FetchRequest(page = "assets")>>

\* the requests handleDelete issues once the delete call has settled:
\* fetchAssets(showToast) / fetchRooms() in the try block, nothing in the
\* catch block
DeleteReload(r) == IF r.ok THEN <<FetchRequest(page = "assets")>> ELSE <<>>

\* handleDelete after the await
HandleDeleteDone(i, r) ==
    /\ page \in CrudPages
    /\ i \in 1..Len(net)
    /\ net[i].op = "delete"
    /\ r \in Outcomes(net[i])
    /\ IF r.ok
       THEN toast' = ShowToast(IF page = "assets"
                                  THEN "Asset deleted successfully!"
                                  ELSE "Room deleted successfully!",
                                  "success")
       ELSE toast' = ShowToast(IF page = "assets"
                                  THEN "Error deleting asset"
                                  ELSE "Error deleting room", "error")
    /\ net' = Remove(net, i) \o DeleteReload(r)
    /\ UNCHANGED <<page, location, loading, issued, confirmAnswer, crudVars,
                   server, srvVersion, nextId, offCrud>>

CancelResetKeepsFields(p) ==
    [showForm |-> FALSE, editingTarget |-> NULL, formData |-> formData]

CancelResetKeepsTarget(p) ==
    [showForm |-> FALSE, editingTarget |-> editingTarget,
     formData |-> DefaultForm(p)]

\* what handleCancel leaves in the form
CancelReset(p) ==
    [showForm |-> FALSE, editingTarget |-> NULL, formData |-> DefaultForm(p)]

\* handleCancel(), from the Add/Cancel toggle button while the form is shown
HandleCancel ==
    /\ page \in CrudPages
    /\ Rendered
    /\ showForm
    /\ showForm' = CancelReset(page).showForm
    /\ editingTarget' = CancelReset(page).editingTarget
    /\ formData' = CancelReset(page).formData
    /\ UNCHANGED <<page, location, loading, toast, net, issued,
                   confirmAnswer, items, lastList, submitOk, server,
                   srvVersion, nextId, offCrud>>

(***************************************************************************)
(* UserManagement.                                                         *)
(***************************************************************************)
\* the accounts the server starts with; Pending accounts cannot sign in
InitialUsers ==
    <<[id |-> 1, role |-> "Warden"], [id |-> 2, role |-> "Sub-Warden"],
      [id |-> 3, role |-> "Pending"]>>

\* roles the role selector of a row is set to
RoleInputs == {"Warden", "Inventory Staff"}

\* the server handles request i of the user-management page successfully:
\* getCurrentUser, listUsers, updateUser, deleteUser of services/api.js
ServeUsers(i) ==
    /\ page = "users"
    /\ i \in 1..Len(net)
    /\ net[i].resp = NoResp
    /\ LET r == net[i] IN
       \/ /\ r.op = "me"
          /\ net' = [net EXCEPT ![i].resp = OkObject(me)]
          /\ UNCHANGED server
       \/ /\ r.op = "listUsers"
          /\ net' = [net EXCEPT ![i].resp = OkList(server, 0)]
          /\ UNCHANGED server
       \/ /\ r.op = "updateUser"
          /\ HasId(server, r.id)
          /\ server' = [k \in 1..Len(server) |->
                           IF server[k].id = r.id
                           THEN [server[k] EXCEPT !.role = r.body.role]
                           ELSE server[k]]
          /\ net' = [net EXCEPT ![i].resp = OkOther(0)]
       \/ /\ r.op = "deleteUser"
          /\ HasId(server, r.id)
          /\ server' = DropId(server, r.id)
          /\ net' = [net EXCEPT ![i].resp = OkOther(0)]
    /\ UNCHANGED <<page, location, loading, toast, issued, confirmAnswer,
                   sent, usersVars, offUsers>>

GateOpenToAll(u) == TRUE

\* the access check of fetchCurrentUser: response.data.role !== 'Warden'
\* redirects
IsWarden(u) == u.role = "Warden"

\* fetchCurrentUser after the await (the mount effect issued the call)
FetchCurrentUserDone(i, r) ==
    /\ page = "users"
    /\ i \in 1..Len(net)
    /\ net[i].op = "me"
    /\ r \in Outcomes(net[i])
    /\ IF r.ok
       THEN /\ user' = r.object
            /\ IF ~IsWarden(r.object)
               THEN /\ location' = "/dashboard"
                    /\ net' = Remove(net, i)
                    /\ UNCHANGED sent
               ELSE /\ net' = Append(Remove(net, i),
                                     Request("listUsers", 0, NoBody, FALSE))
                    /\ sent' = sent \cup {<<"listUsers", 0>>}
                    /\ UNCHANGED location
       ELSE /\ location' = IF IsAuthFailure(r) THEN "/signin" ELSE location
            /\ net' = Remove(net, i)
            /\ UNCHANGED <<user, sent>>
    /\ loading' = FALSE
    /\ UNCHANGED <<page, toast, issued, confirmAnswer, allUsers, server,
                   offUsers>>

\* fetchAllUsers after the await
FetchAllUsersDone(i, r) ==
    /\ page = "users"
    /\ i \in 1..Len(net)
    /\ net[i].op = "listUsers"
    /\ r \in Outcomes(net[i])
    /\ allUsers' = IF r.ok THEN r.data ELSE allUsers
    /\ net' = Remove(net, i)
    /\ UNCHANGED <<page, location, loading, toast, issued, confirmAnswer,
                   sent, user, server, offUsers>>

\* the role cell of row u is the selector unless u.id === user?.id
RoleControlOffered(u) == IF user = NULL THEN TRUE ELSE u.id # user.id

DeleteControlOnEveryRow(u) == TRUE

\* the action cell of row u has the Delete button when u.id !== user?.id
DeleteControlOffered(u) == IF user = NULL THEN TRUE ELSE u.id # user.id

\* handleRoleChange(userId, newRole) up to the await, from the selector of
\* row k
HandleRoleChange(k, newRole) ==
    /\ page = "users"
    /\ Rendered
    /\ k \in 1..Len(allUsers)
    /\ RoleControlOffered(allUsers[k])
    /\ newRole \in RoleInputs
    /\ issued < MaxUserRequests /\ Len(net) < MaxInFlight
    /\ net' = Append(net, Request("updateUser", allUsers[k].id,
                                  [role |-> newRole], FALSE))
    /\ sent' = sent \cup {<<"updateUser", allUsers[k].id>>}
    /\ issued' = issued + 1
    /\ UNCHANGED <<page, location, loading, toast, confirmAnswer, usersVars,
                   server, offUsers>>

\* handleRoleChange after the await
HandleRoleChangeDone(i, r) ==
    /\ page = "users"
    /\ i \in 1..Len(net)
    /\ net[i].op = "updateUser"
    /\ r \in Outcomes(net[i])
    /\ IF r.ok
       THEN /\ toast' = ShowToast("User role updated successfully!", "success")
            /\ net' = Append(Remove(net, i),
                             Request("listUsers", 0, NoBody, FALSE))
            /\ sent' = sent \cup {<<"listUsers", 0>>}
       ELSE /\ toast' = ShowToast("Error updating role: "
                                    \o ErrorOr(r, "Unknown error"), "error")
            /\ net' = Remove(net, i)
            /\ UNCHANGED sent
    /\ UNCHANGED <<page, location, loading, issued, confirmAnswer, usersVars,
                   server, offUsers>>

\* whether handleDeleteUser goes on to the delete call, given what
\* window.confirm returned
DeleteUserProceeds(confirmed) == confirmed

\* handleDeleteUser(userId) up to the await, from the Delete button of row k
HandleDeleteUser(k, confirmed) ==
    /\ page = "users"
    /\ Rendered
    /\ k \in 1..Len(allUsers)
    /\ DeleteControlOffered(allUsers[k])
    /\ IF DeleteUserProceeds(confirmed)
       THEN /\ issued < MaxUserRequests /\ Len(net) < MaxInFlight
            /\ net' = Append(net, Request("deleteUser", allUsers[k].id,
                                          NoBody, FALSE))
            /\ sent' = sent \cup {<<"deleteUser", allUsers[k].id>>}
            /\ issued' = issued + 1
       ELSE UNCHANGED <<net, sent, issued>>
    /\ confirmAnswer' = (IF confirmed THEN "ok" ELSE "cancel")
    /\ UNCHANGED <<page, location, loading, toast, usersVars, server,
                   offUsers>>

UsersPatchedInPlace(r, list, id) == IF r.ok THEN DropId(list, id) ELSE list

\* the table handleDeleteUser leaves: it calls no setAllUsers, the table
\* changes when the refetch arrives
UsersAfterDelete(r, list, id) == list

\* handleDeleteUser after the await
HandleDeleteUserDone(i, r) ==
    /\ page = "users"
    /\ i \in 1..Len(net)
    /\ net[i].op = "deleteUser"
    /\ r \in Outcomes(net[i])
    /\ IF r.ok
       THEN /\ toast' = ShowToast("User deleted successfully!", "success")
            /\ net' = Append(Remove(net, i),
                             Request("listUsers", 0, NoBody, FALSE))
            /\ sent' = sent \cup {<<"listUsers", 0>>}
       ELSE /\ toast' = ShowToast("Error deleting user: "
                                    \o ErrorOr(r, "Unknown error"), "error")
            /\ net' = Remove(net, i)
            /\ UNCHANGED sent
    /\ allUsers' = UsersAfterDelete(r, allUsers, net[i].id)
    /\ UNCHANGED <<page, location, loading, issued, confirmAnswer, user,
                   server, offUsers>>

(***************************************************************************)
(* Timers (setTimeout) and the clock.                                      *)
(***************************************************************************)
TimerWithoutDelay(target, delay) == [navigate |-> target, due |-> now]

\* setTimeout(() => navigate(target), delay)
Timer(target, delay) == [navigate |-> target, due |-> now + delay]

\* time passes
Tick ==
    /\ page \in {"signin", "reset", "signup"}
    /\ page # "signin" => timers # {}
    /\ now < MaxClock * TickMs
    /\ now' = now + TickMs
    /\ UNCHANGED <<pageVars, confirmAnswer, sent, timers, srvVars, crudVars,
                   usersVars, resetVars, authVars, damageVars, dashVars>>

\* a setTimeout callback runs, not before its delay has elapsed:
\* () => navigate(target)
TimerFire(t) ==
    /\ t \in timers
    /\ now >= t.due
    /\ location' = t.navigate
    /\ timers' = timers \ {t}
    /\ UNCHANGED <<page, loading, toast, net, issued, confirmAnswer, sent,
                   now, srvVars, crudVars, usersVars, resetVars, authVars,
                   damageVars, dashVars>>

(***************************************************************************)
(* ForgotPassword.                                                         *)
(***************************************************************************)
EmailInputs == {"a@x.org", "b@x.org"}
CodeInputs == {"123456"}
\* passwords, as sequences of characters
PasswordInputs == {<<"a", "b", "c">>, <<"a", "b", "c", "d">>}

\* the server handles request i of the reset flow successfully:
\* requestPasswordReset, verifyResetCode, resetPasswordWithCode
ServeReset(i) ==
    /\ page = "reset"
    /\ i \in 1..Len(net)
    /\ net[i].resp = NoResp
    /\ net' = [net EXCEPT ![i].resp = OkOther(0)]
    /\ UNCHANGED <<page, location, loading, toast, issued, sent, timeVars,
                   resetVars, offReset>>

\* onChange of the email input (step 1): setEmail(e.target.value)
SetEmail(v) ==
    /\ page = "reset" /\ location = PathOf(page)
    /\ step = 1
    /\ v \in EmailInputs
    /\ email' = v
    /\ UNCHANGED <<pageVars, sent, timeVars, step, code, newPassword,
                   confirmPassword, verified, offReset>>

\* onChange of the code input (step 2): setCode(e.target.value)
SetCode(v) ==
    /\ page = "reset" /\ location = PathOf(page)
    /\ step = 2
    /\ v \in CodeInputs
    /\ code' = v
    /\ UNCHANGED <<pageVars, sent, timeVars, step, email, newPassword,
                   confirmPassword, verified, offReset>>

\* onChange of the password inputs (step 3)
SetNewPassword(v) ==
    /\ page = "reset" /\ location = PathOf(page)
    /\ step = 3
    /\ v \in PasswordInputs
    /\ newPassword' = v
    /\ UNCHANGED <<pageVars, sent, timeVars, step, email, code,
                   confirmPassword, verified, offReset>>

SetConfirmPassword(v) ==
    /\ page = "reset" /\ location = PathOf(page)
    /\ step = 3
    /\ v \in PasswordInputs
    /\ confirmPassword' = v
    /\ UNCHANGED <<pageVars, sent, timeVars, step, email, code, newPassword,
                   verified, offReset>>

\* handleRequestCode up to the await, from the form of step 1
HandleRequestCode ==
    /\ page = "reset" /\ location = PathOf(page)
    /\ step = 1
    /\ issued < MaxResetRequests /\ Len(net) < MaxInFlight
    /\ loading' = TRUE
    /\ net' = Append(net, Request("requestReset", 0, [email |-> email],
                                  FALSE))
    /\ sent' = sent \cup {<<"requestReset", 0>>}
    /\ issued' = issued + 1
    /\ UNCHANGED <<page, location, toast, timeVars, resetVars, offReset>>

RetryRequestCode(r, req) ==
    IF r.ok THEN <<>> ELSE <<[req EXCEPT !.resp = NoResp]>>

\* the calls handleRequestCode issues once its call has settled: none, the
\* catch block only shows the error
RequestsAfterRequestCode(r, req) == <<>>

\* handleRequestCode after the await
HandleRequestCodeDone(i, r) ==
    /\ page = "reset"
    /\ i \in 1..Len(net)
    /\ net[i].op = "requestReset"
    /\ r \in Outcomes(net[i])
    /\ IF r.ok
       THEN /\ toast' = ShowToast("Reset code sent to your email!", "success")
            /\ step' = 2
       ELSE /\ toast' = ShowToast(ErrorOr(r, "Failed to send reset code"),
                                  "error")
            /\ UNCHANGED step
    /\ loading' = FALSE
    /\ net' = Remove(net, i) \o RequestsAfterRequestCode(r, net[i])
    /\ UNCHANGED <<page, location, issued, sent, timeVars, email, code,
                   newPassword, confirmPassword, verified, offReset>>

\* handleVerifyCode up to the await, from the form of step 2
HandleVerifyCode ==
    /\ page = "reset" /\ location = PathOf(page)
    /\ step = 2
    /\ issued < MaxResetRequests /\ Len(net) < MaxInFlight
    /\ loading' = TRUE
    /\ net' = Append(net, Request("verifyCode", 0,
                                  [email |-> email, code |-> code], FALSE))
    /\ sent' = sent \cup {<<"verifyCode", 0>>}
    /\ issued' = issued + 1
    /\ UNCHANGED <<page, location, toast, timeVars, resetVars, offReset>>

StepAfterVerifyIgnoresFailure(r, current) == 3

\* the step handleVerifyCode leaves: setStep(3) in the try block only
StepAfterVerify(r, current) == IF r.ok THEN 3 ELSE current

\* handleVerifyCode after the await
HandleVerifyCodeDone(i, r) ==
    /\ page = "reset"
    /\ i \in 1..Len(net)
    /\ net[i].op = "verifyCode"
    /\ r \in Outcomes(net[i])
    /\ toast' = IF r.ok
                THEN ShowToast("Code verified! Enter your new password",
                               "success")
                ELSE ShowToast(ErrorOr(r, "Invalid or expired code"), "error")
    /\ step' = StepAfterVerify(r, step)
    /\ verified' = (verified \/ r.ok)
    /\ loading' = FALSE
    /\ net' = Remove(net, i)
    /\ UNCHANGED <<page, location, issued, sent, timeVars, email, code,
                   newPassword, confirmPassword, offReset>>

\* the Change Email button of step 2: setStep(1)
ChangeEmail ==
    /\ page = "reset" /\ location = PathOf(page)
    /\ step = 2
    /\ step' = 1
    /\ UNCHANGED <<pageVars, sent, timeVars, email, code, newPassword,
                   confirmPassword, verified, offReset>>

ResetValidationSkipsLength(np, cp) ==
    IF np # cp THEN "Passwords do not match" ELSE ""

\* the client-side checks of handleResetPassword: the message of the check
\* that fails, "" when both pass
ResetValidation(np, cp) ==
    IF np # cp THEN "Passwords do not match"
    ELSE IF Len(np) < MinPasswordLength
    THEN "Password must be at least 4 characters"
    ELSE ""

\* handleResetPassword up to the return or the await, from the form of
\* step 3
HandleResetPassword ==
    /\ page = "reset" /\ location = PathOf(page)
    /\ step = 3
    /\ IF ResetValidation(newPassword, confirmPassword) # ""
       THEN /\ toast' = ShowToast(ResetValidation(newPassword,
                                                  confirmPassword), "error")
            /\ UNCHANGED <<loading, net, sent, issued>>
       ELSE /\ issued < MaxResetRequests /\ Len(net) < MaxInFlight
            /\ loading' = TRUE
            /\ net' = Append(net, Request("resetPassword", 0,
                                          [email |-> email, code |-> code,
                                           new_password |-> newPassword],
                                          FALSE))
            /\ sent' = sent \cup {<<"resetPassword", 0>>}
            /\ issued' = issued + 1
            /\ UNCHANGED toast
    /\ UNCHANGED <<page, location, timeVars, resetVars, offReset>>

\* handleResetPassword after the await
HandleResetPasswordDone(i, r) ==
    /\ page = "reset"
    /\ i \in 1..Len(net)
    /\ net[i].op = "resetPassword"
    /\ r \in Outcomes(net[i])
    /\ IF r.ok
       THEN /\ toast' = ShowToast(
                  "Password reset successfully! Redirecting to login...",
                  "success")
            /\ timers' = timers \cup {Timer("/signin", ResetDelay)}
       ELSE /\ toast' = ShowToast(ErrorOr(r, "Failed to reset password"),
                                  "error")
            /\ UNCHANGED timers
    /\ loading' = FALSE
    /\ net' = Remove(net, i)
    /\ UNCHANGED <<page, location, issued, sent, now, resetVars, offReset>>

(***************************************************************************)
(* useAuth.handleLogin, from the form of SignIn.                           *)
(***************************************************************************)
\* the accounts the login endpoint knows, and the user it returns for each
Accounts ==
    {[username |-> "warden1", password |-> "secret",
      user |-> [id |-> 1, role |-> "Warden"]],
     [username |-> "staff1", password |-> "pw",
      user |-> [id |-> 2, role |-> "Inventory Staff"]]}

\* what the user types into the form
Credentials ==
    {[username |-> a.username, password |-> a.password] : a \in Accounts}
    \cup {[username |-> "warden1", password |-> "wrong"]}

\* JSON.stringify of a user object
Stringify(u) ==
    "{\"id\":" \o ToString(u.id) \o ",\"role\":\"" \o u.role \o "\"}"

\* the server handles a login request successfully: login of
\* services/api.js, for credentials of an account
ServeLogin(i) ==
    /\ page = "signin"
    /\ i \in 1..Len(net)
    /\ net[i].resp = NoResp
    /\ net[i].op = "login"
    /\ \E a \in Accounts :
          /\ a.username = net[i].body.username
          /\ a.password = net[i].body.password
          /\ net' = [net EXCEPT ![i].resp = OkObject([user |-> a.user])]
    /\ UNCHANGED <<page, location, loading, toast, issued, timeVars,
                   authVars, offAuth>>

\* handleLogin(username, password, showToast) up to the await
HandleLogin(cred) ==
    /\ page = "signin" /\ location = PathOf(page)
    /\ cred \in Credentials
    /\ issued < MaxLogins /\ Len(net) < MaxInFlight
    /\ error' = ""
    /\ loading' = TRUE
    /\ net' = Append(net, Request("login", 0, cred, TRUE))
    /\ issued' = issued + 1
    /\ UNCHANGED <<page, location, toast, timeVars, storage, loginAt,
                   offAuth>>

LoginErrorGenericOnly(r) == "Login failed. Check your username and password."

\* the error handleLogin's catch block sets:
\* err.response?.data?.error || 'Login failed. Check your username and
\* password.'
LoginError(r) ==
    ErrorOr(r, "Login failed. Check your username and password.")

\* handleLogin after the await; showToast of SignIn keeps no type
HandleLoginDone(i, r) ==
    /\ page = "signin"
    /\ i \in 1..Len(net)
    /\ net[i].op = "login"
    /\ r \in Outcomes(net[i])
    /\ IF r.ok
       THEN /\ storage' = Stringify(r.object.user)
            /\ toast' = ShowToast("Login successful!", "")
            /\ timers' = timers \cup {Timer("/dashboard", LoginDelay)}
            /\ loginAt' = IF loginAt < 0 THEN now ELSE loginAt
            /\ UNCHANGED error
       ELSE /\ error' = LoginError(r)
            /\ UNCHANGED <<storage, toast, timers, loginAt>>
    /\ loading' = FALSE
    /\ net' = Remove(net, i)
    /\ UNCHANGED <<page, location, issued, now, offAuth>>

(***************************************************************************)
(* useAuth.handleRegister, from the form of SignUp.                        *)
(***************************************************************************)
\* what the user types into the sign-up form
RegisterForm ==
    [username |-> "staff2", email |-> "staff2@x.org", password |-> "pw",
     first_name |-> "S", last_name |-> "T"]

\* the server handles a register request successfully: register of
\* services/api.js
ServeRegister(i) ==
    /\ page = "signup"
    /\ i \in 1..Len(net)
    /\ net[i].resp = NoResp
    /\ net[i].op = "register"
    /\ net' = [net EXCEPT ![i].resp = OkOther(0)]
    /\ UNCHANGED <<page, location, loading, toast, issued, timeVars,
                   authVars, offAuth>>

\* handleRegister(formData, showToast) up to the await
HandleRegister ==
    /\ page = "signup" /\ location = PathOf(page)
    /\ issued < MaxRegistrations /\ Len(net) < MaxInFlight
    /\ error' = ""
    /\ loading' = TRUE
    /\ net' = Append(net, Request("register", 0, RegisterForm, TRUE))
    /\ issued' = issued + 1
    /\ UNCHANGED <<page, location, toast, timeVars, storage, loginAt,
                   offAuth>>

\* the error handleRegister's catch block sets:
\* err.response?.data?.error || err.response?.data?.username?.[0] ||
\* 'Registration failed. Please check your details.'
RegisterError(body) ==
    IF body.error # "" THEN body.error
    ELSE IF body.username # <<>> THEN body.username[1]
    ELSE "Registration failed. Please check your details."

\* handleRegister after the await; showToast of SignUp keeps no type
HandleRegisterDone(i, r) ==
    /\ page = "signup"
    /\ i \in 1..Len(net)
    /\ net[i].op = "register"
    /\ r \in Outcomes(net[i])
    /\ IF r.ok
       THEN /\ toast' = ShowToast(
                  "Registration successful! Redirecting to login...", "")
            /\ timers' = timers \cup {Timer("/signin", RegisterDelay)}
            /\ UNCHANGED error
       ELSE /\ error' = RegisterError(r.body)
            /\ UNCHANGED <<toast, timers>>
    /\ loading' = FALSE
    /\ net' = Remove(net, i)
    /\ UNCHANGED <<page, location, issued, now, storage, loginAt, offAuth>>

(***************************************************************************)
(* useDamageTracking.                                                      *)
(***************************************************************************)
\* the rooms the API returns to the room selector
ServerRooms == <<[id |-> 1, room_number |-> "101"]>>

\* the damage reports on the server when the page is mounted
InitialReports ==
    <<[id |-> 1, room |-> 1, room_number |-> "101", asset_type |-> "Bed",
       description |-> <<"x">>, status |-> "Not Fixed"]>>

\* values of the room selector: the placeholder option and one option per
\* room, value={room.id} as a string
RoomInputs == {"", "1"}
AssetTypeInputs == {"Fan"}
\* descriptions, as sequences of characters
DescriptionInputs == {<<" ">>, <<" ", "x", " ">>}
StatusInputs == {"Fixed"}

IsSpace(c) == c \in {" ", "\t", "\n"}

RECURSIVE TrimStart(_)
TrimStart(str) ==
    IF str # <<>> /\ IsSpace(Head(str)) THEN TrimStart(Tail(str)) ELSE str

RECURSIVE TrimEnd(_)
TrimEnd(str) ==
    IF str # <<>> /\ IsSpace(str[Len(str)])
    THEN TrimEnd(SubSeq(str, 1, Len(str) - 1))
    ELSE str

\* String.prototype.trim
Trim(str) == TrimEnd(TrimStart(str))

\* the report the API stores for a posted body: the room id arrives as the
\* string of the selector
StoredReport(id, body) ==
    [id |-> id, room |-> 1, room_number |-> ServerRooms[1].room_number,
     asset_type |-> body.asset_type, description |-> body.description,
     status |-> "Not Fixed"]

\* the server handles request i of the damage page successfully: getRooms,
\* getDamageReports, createDamageReport, updateDamageReport,
\* deleteDamageReport
ServeDamage(i) ==
    /\ page = "damage"
    /\ i \in 1..Len(net)
    /\ net[i].resp = NoResp
    /\ LET r == net[i] IN
       \/ /\ r.op = "getRooms"
          /\ net' = [net EXCEPT ![i].resp = OkList(ServerRooms, 0)]
          /\ UNCHANGED <<server, nextId>>
       \/ /\ r.op = "listReports"
          /\ net' = [net EXCEPT ![i].resp = OkList(server, 0)]
          /\ UNCHANGED <<server, nextId>>
       \/ /\ r.op = "createReport"
          /\ server' = Append(server, StoredReport(nextId, r.body))
          /\ nextId' = nextId + 1
          /\ net' = [net EXCEPT ![i].resp = OkOther(0)]
       \/ /\ r.op = "updateReport"
          /\ HasId(server, r.id)
          /\ server' = ReplaceId(server, r.id, r.body)
          /\ net' = [net EXCEPT ![i].resp = OkOther(0)]
          /\ UNCHANGED nextId
       \/ /\ r.op = "deleteReport"
          /\ HasId(server, r.id)
          /\ server' = DropId(server, r.id)
          /\ net' = [net EXCEPT ![i].resp = OkOther(0)]
          /\ UNCHANGED nextId
    /\ UNCHANGED <<page, location, loading, toast, issued, confirmAnswer,
                   damageVars, offDamage>>

\* fetchRooms of useDamageTracking after the await
FetchRoomsDamageDone(i, r) ==
    /\ page = "damage"
    /\ i \in 1..Len(net)
    /\ net[i].op = "getRooms"
    /\ r \in Outcomes(net[i])
    /\ rooms' = (IF r.ok /\ r.isArray THEN r.data ELSE <<>>)
    /\ location' = (IF ~r.ok /\ IsAuthFailure(r) THEN "/signin" ELSE location)
    /\ loading' = FALSE
    /\ net' = Remove(net, i)
    /\ UNCHANGED <<page, toast, issued, confirmAnswer, server, nextId,
                   damageReports, selectedRoom, assetType, description,
                   offDamage>>

ReportsAfterFetchFirstWins(r, old) ==
    IF old # <<>> THEN old ELSE IF r.ok /\ r.isArray THEN r.data ELSE <<>>

\* the list fetchDamageReports sets: the body if the call succeeded with an
\* array, [] otherwise
ReportsAfterFetch(r, old) == IF r.ok /\ r.isArray THEN r.data ELSE <<>>

\* fetchDamageReports after the await
FetchDamageReportsDone(i, r) ==
    /\ page = "damage"
    /\ i \in 1..Len(net)
    /\ net[i].op = "listReports"
    /\ r \in Outcomes(net[i])
    /\ damageReports' = ReportsAfterFetch(r, damageReports)
    /\ net' = Remove(net, i)
    /\ UNCHANGED <<page, location, loading, toast, issued, confirmAnswer,
                   server, nextId, rooms, selectedRoom, assetType,
                   description, offDamage>>

\* onChange of the room selector: setSelectedRoom(e.target.value)
SetSelectedRoom(v) ==
    /\ page = "damage" /\ Rendered
    /\ v \in RoomInputs
    /\ v # "" => \E k \in 1..Len(rooms) : ToString(rooms[k].id) = v
    /\ selectedRoom' = v
    /\ UNCHANGED <<pageVars, confirmAnswer, server, nextId, rooms,
                   damageReports, assetType, description, offDamage>>

\* onChange of the asset type selector: setAssetType(e.target.value)
SetAssetType(v) ==
    /\ page = "damage" /\ Rendered
    /\ v \in AssetTypeInputs
    /\ assetType' = v
    /\ UNCHANGED <<pageVars, confirmAnswer, server, nextId, rooms,
                   damageReports, selectedRoom, description, offDamage>>

\* onChange of the description field: setDescription(e.target.value)
SetDescription(v) ==
    /\ page = "damage" /\ Rendered
    /\ v \in DescriptionInputs
    /\ description' = v
    /\ UNCHANGED <<pageVars, confirmAnswer, server, nextId, rooms,
                   damageReports, selectedRoom, assetType, offDamage>>

DamageValidationWithoutTrim(room, text) ==
    IF room = "" THEN "Please select a room"
    ELSE IF text = <<>> THEN "Please enter damage description"
    ELSE ""

\* the checks of handleSubmit: the message of the check that fails, "" when
\* both pass
DamageValidation(room, text) ==
    IF room = "" THEN "Please select a room"
    ELSE IF Trim(text) = <<>> THEN "Please enter damage description"
    ELSE ""

\* handleSubmit(e, showToast) of useDamageTracking up to the return or the
\* await
HandleSubmitDamage ==
    /\ page = "damage" /\ Rendered
    /\ IF DamageValidation(selectedRoom, description) # ""
       THEN /\ toast' = ShowToast(DamageValidation(selectedRoom, description),
                                  "error")
            /\ UNCHANGED <<net, issued>>
       ELSE /\ issued < MaxRequests /\ Len(net) < MaxInFlight
            /\ net' = Append(net, Request("createReport", 0,
                                          [room |-> selectedRoom,
                                           asset_type |-> assetType,
                                           description |-> Trim(description)],
                                          TRUE))
            /\ issued' = issued + 1
            /\ UNCHANGED toast
    /\ UNCHANGED <<page, location, loading, confirmAnswer, server, nextId,
                   damageVars, offDamage>>

\* handleSubmit of useDamageTracking after the await
HandleSubmitDamageDone(i, r) ==
    /\ page = "damage"
    /\ i \in 1..Len(net)
    /\ net[i].op = "createReport"
    /\ r \in Outcomes(net[i])
    /\ IF r.ok
       THEN /\ toast' = ShowToast("Damage report added successfully!",
                                  "success")
            /\ description' = <<>>
            /\ net' = Append(Remove(net, i),
                             Request("listReports", 0, NoBody, FALSE))
       ELSE /\ toast' = ShowToast(ErrorOr(r, "Failed to add damage report"),
                                  "error")
            /\ net' = Remove(net, i)
            /\ UNCHANGED description
    /\ UNCHANGED <<page, location, loading, issued, confirmAnswer, server,
                   nextId, rooms, damageReports, selectedRoom, assetType,
                   offDamage>>

StatusBodyDropsDescription(report, newStatus) ==
    [report EXCEPT !.status = newStatus, !.description = <<>>]

\* the body handleStatusChange sends: {...report, status: newStatus}, for
\* the report found in damageReports by its id
StatusBody(report, newStatus) == [report EXCEPT !.status = newStatus]

\* handleStatusChange(reportId, newStatus, showToast) up to the await, from
\* the status selector of a row
HandleStatusChange(k, newStatus) ==
    /\ page = "damage" /\ Rendered
    /\ k \in 1..Len(damageReports)
    /\ newStatus \in StatusInputs
    /\ issued < MaxRequests /\ Len(net) < MaxInFlight
    /\ net' = Append(net, Request("updateReport", damageReports[k].id,
                                  StatusBody(damageReports[k], newStatus),
                                  TRUE))
    /\ issued' = issued + 1
    /\ UNCHANGED <<page, location, loading, toast, confirmAnswer, server,
                   nextId, damageVars, offDamage>>

\* handleStatusChange after the await
HandleStatusChangeDone(i, r) ==
    /\ page = "damage"
    /\ i \in 1..Len(net)
    /\ net[i].op = "updateReport"
    /\ r \in Outcomes(net[i])
    /\ IF r.ok
       THEN /\ toast' = ShowToast("Status updated successfully!", "success")
            /\ net' = Append(Remove(net, i),
                             Request("listReports", 0, NoBody, FALSE))
       ELSE /\ toast' = ShowToast("Error updating status", "error")
            /\ net' = Remove(net, i)
    /\ UNCHANGED <<page, location, loading, issued, confirmAnswer, server,
                   nextId, damageVars, offDamage>>

DeleteReportProceedsAlways(confirmed) == TRUE

\* if (window.confirm(...)) of handleDelete of useDamageTracking
DeleteReportProceeds(confirmed) == confirmed

\* handleDelete(reportId, roomNumber, assetType, showToast) up to the
\* await, from the Delete button of a row; confirmed is what window.confirm
\* returns
HandleDeleteDamage(k, confirmed) ==
    /\ page = "damage" /\ Rendered
    /\ k \in 1..Len(damageReports)
    /\ IF DeleteReportProceeds(confirmed)
       THEN /\ issued < MaxRequests /\ Len(net) < MaxInFlight
            /\ net' = Append(net, Request("deleteReport", damageReports[k].id,
                                          NoBody, TRUE))
            /\ issued' = issued + 1
       ELSE UNCHANGED <<net, issued>>
    /\ confirmAnswer' = (IF confirmed THEN "ok" ELSE "cancel")
    /\ UNCHANGED <<page, location, loading, toast, server, nextId,
                   damageVars, offDamage>>

\* handleDelete of useDamageTracking after the await
HandleDeleteDamageDone(i, r) ==
    /\ page = "damage"
    /\ i \in 1..Len(net)
    /\ net[i].op = "deleteReport"
    /\ r \in Outcomes(net[i])
    /\ IF r.ok
       THEN /\ toast' = ShowToast("Damage report deleted successfully!",
                                  "success")
            /\ net' = Append(Remove(net, i),
                             Request("listReports", 0, NoBody, FALSE))
       ELSE /\ toast' = ShowToast("Error deleting report", "error")
            /\ net' = Remove(net, i)
    /\ UNCHANGED <<page, location, loading, issued, confirmAnswer, server,
                   nextId, damageVars, offDamage>>

(***************************************************************************)
(* Dashboard.                                                              *)
(***************************************************************************)
\* useState default of summary
DefaultSummary ==
    [total_assets |-> 0, damage_reports |-> 0, total_rooms |-> 0,
     total_users |-> 0]

\* the counts the server reports
ServerSummary ==
    [total_assets |-> 1, damage_reports |-> 1, total_rooms |-> 1,
     total_users |-> 3]

\* what local storage can hold under 'user' when the dashboard is mounted:
\* nothing, or the snapshot of an account (handleLogin writes it, only
\* handleLogout removes it, and the user of the browser can edit it)
StoredSnapshots ==
    {"", Stringify(InitialUsers[1]), Stringify(InitialUsers[2])}

\* what local storage holds when the user-management page is mounted for
\* the session of account u: the snapshot the login of u left or, edited by
\* hand, the snapshot of the Warden
SnapshotsFor(u) == {Stringify(u), Stringify(InitialUsers[1])}

\* the server handles request i of the dashboard successfully:
\* getDashboardSummary, getCurrentUser, logout of services/api.js
ServeDashboard(i) ==
    /\ page = "dashboard"
    /\ i \in 1..Len(net)
    /\ net[i].resp = NoResp
    /\ net' = [net EXCEPT ![i].resp =
                  CASE net[i].op = "summary" -> OkObject(ServerSummary)
                    [] net[i].op = "me" -> OkObject(me)
                    [] OTHER -> OkOther(0)]
    /\ UNCHANGED <<page, location, loading, toast, issued, user, storage,
                   summary, offDash>>

\* fetchDashboardData after the await (the mount effect issued the call)
FetchDashboardDataDone(i, r) ==
    /\ page = "dashboard"
    /\ i \in 1..Len(net)
    /\ net[i].op = "summary"
    /\ r \in Outcomes(net[i])
    /\ summary' = (IF r.ok THEN r.object ELSE summary)
    /\ location' = (IF ~r.ok /\ IsAuthFailure(r) THEN "/signin" ELSE location)
    /\ loading' = FALSE
    /\ net' = Remove(net, i)
    /\ UNCHANGED <<page, toast, issued, user, storage, offDash>>

\* fetchCurrentUser of Dashboard after the await: the catch block only logs
FetchCurrentUserDashboardDone(i, r) ==
    /\ page = "dashboard"
    /\ i \in 1..Len(net)
    /\ net[i].op = "me"
    /\ r \in Outcomes(net[i])
    /\ user' = (IF r.ok THEN r.object ELSE user)
    /\ net' = Remove(net, i)
    /\ UNCHANGED <<page, location, loading, toast, issued, storage, summary,
                   offDash>>

WardenOnlyFromStorage(u) == storage = Stringify(InitialUsers[1])

\* the condition of the two Warden-only elements of the dashboard (the User
\* Management button, the Total Users card): user?.role === 'Warden'
WardenOnly(u) == u # NULL /\ u.role = "Warden"

\* the routes of the navigation buttons every user is offered
DashboardLinks == {"/assets", "/rooms", "/damage-tracking", "/profile"}

\* onClick of a navigation button: navigate(target)
NavigateFromDashboard(target) ==
    /\ page = "dashboard" /\ Rendered
    /\ \/ target \in DashboardLinks
       \/ target = "/user-management" /\ WardenOnly(user)
    /\ location' = target
    /\ UNCHANGED <<page, loading, toast, net, issued, user, storage, summary,
                   offDash>>

\* handleLogout up to the await, from the Logout button
HandleLogout ==
    /\ page = "dashboard" /\ Rendered
    /\ issued < MaxRequests /\ Len(net) < MaxInFlight
    /\ net' = Append(net, Request("logout", 0, NoBody, FALSE))
    /\ issued' = issued + 1
    /\ UNCHANGED <<page, location, loading, toast, user, storage, summary,
                   offDash>>

\* handleLogout after the await: removeItem and navigate in the try block,
\* the catch block only logs
HandleLogoutDone(i, r) ==
    /\ page = "dashboard"
    /\ i \in 1..Len(net)
    /\ net[i].op = "logout"
    /\ r \in Outcomes(net[i])
    /\ storage' = (IF r.ok THEN "" ELSE storage)
    /\ location' = (IF r.ok THEN "/signin" ELSE location)
    /\ net' = Remove(net, i)
    /\ UNCHANGED <<page, loading, toast, issued, user, summary, offDash>>

(***************************************************************************)
(* Toast timers.                                                           *)
(***************************************************************************)
\* the timer showToast starts: setToast({show: false, ...}) when it fires
ToastExpire ==
    /\ toast.show
    /\ toast' = NoToast
    /\ UNCHANGED <<page, location, loading, net, issued, confirmAnswer, sent,
                   timeVars, srvVars, crudVars, usersVars, resetVars,
                   authVars, damageVars, dashVars>>

(***************************************************************************)
(* The system.                                                             *)
(***************************************************************************)
\* values of the state of the pages that are not mounted
IdleCrud ==
    /\ items = <<>> /\ showForm = FALSE /\ editingTarget = NULL
    /\ formData = NoBody /\ lastList = [kind |-> "none", ver |-> 0]
    /\ submitOk = FALSE
IdleUsers == user = NULL /\ allUsers = <<>>
IdleReset ==
    /\ step = 1 /\ email = "" /\ code = "" /\ newPassword = <<>>
    /\ confirmPassword = <<>> /\ verified = FALSE
IdleAuth == error = "" /\ storage = "" /\ loginAt = -1
IdleDamage ==
    /\ rooms = <<>> /\ damageReports = <<>> /\ selectedRoom = ""
    /\ assetType = "Bed" /\ description = <<>>
IdleDashboard == summary = DefaultSummary

\* mounting Assets / Rooms: useState defaults, then the effect's fetch
InitCrud ==
    /\ page \in CrudPages
    /\ items = <<>>
    /\ loading = TRUE
    /\ showForm = FALSE
    /\ editingTarget = NULL
    /\ formData = DefaultForm(page)
    /\ net = <<FetchRequest(FALSE)>>
    /\ server \in InitialServer(page)
    /\ nextId = 2
    /\ me = NULL
    /\ lastList = [kind |-> "none", ver |-> 0]
    /\ submitOk = FALSE
    /\ IdleUsers /\ IdleReset /\ IdleAuth /\ IdleDamage /\ IdleDashboard

\* mounting UserManagement: useState defaults, then the effect's
\* fetchCurrentUser; the session belongs to an account that can sign in,
\* and local storage holds what earlier page loads left there
InitUsers ==
    /\ page = "users"
    /\ user = NULL
    /\ loading = TRUE
    /\ allUsers = <<>>
    /\ net = <<Request("me", 0, NoBody, FALSE)>>
    /\ server = InitialUsers
    /\ nextId = 4
    /\ me \in {InitialUsers[k] : k \in 1..2}
    /\ error = "" /\ loginAt = -1
    /\ storage \in SnapshotsFor(me)
    /\ IdleCrud /\ IdleReset /\ IdleDamage /\ IdleDashboard

\* mounting ForgotPassword: useState defaults
InitReset ==
    /\ page = "reset"
    /\ loading = FALSE
    /\ net = <<>>
    /\ server = <<>>
    /\ nextId = 1
    /\ me = NULL
    /\ IdleReset /\ IdleCrud /\ IdleUsers /\ IdleAuth /\ IdleDamage /\ IdleDashboard

\* mounting SignIn: useState defaults of useAuth; nothing stored yet
InitAuth ==
    /\ page = "signin"
    /\ loading = FALSE
    /\ net = <<>>
    /\ server = <<>>
    /\ nextId = 1
    /\ me = NULL
    /\ IdleAuth /\ IdleCrud /\ IdleUsers /\ IdleReset /\ IdleDamage
    /\ IdleDashboard

\* mounting DamageTracking: useState defaults and the mount effect, which
\* calls fetchRooms and fetchDamageReports
InitDamage ==
    /\ page = "damage"
    /\ loading = TRUE
    /\ net = <<Request("getRooms", 0, NoBody, FALSE),
               Request("listReports", 0, NoBody, FALSE)>>
    /\ server = InitialReports
    /\ nextId = 2
    /\ me = NULL
    /\ IdleDamage /\ IdleCrud /\ IdleUsers /\ IdleReset /\ IdleAuth /\ IdleDashboard

\* mounting SignUp: useState defaults of useAuth
InitSignUp ==
    /\ page = "signup"
    /\ loading = FALSE
    /\ net = <<>>
    /\ server = <<>>
    /\ nextId = 1
    /\ me = NULL
    /\ IdleAuth /\ IdleCrud /\ IdleUsers /\ IdleReset /\ IdleDamage
    /\ IdleDashboard

\* mounting Dashboard: useState defaults and the mount effect, which calls
\* fetchDashboardData and fetchCurrentUser
InitDashboard ==
    /\ page = "dashboard"
    /\ summary = DefaultSummary
    /\ user = NULL
    /\ loading = TRUE
    /\ net = <<Request("summary", 0, NoBody, FALSE),
               Request("me", 0, NoBody, FALSE)>>
    /\ server = <<>>
    /\ nextId = 1
    /\ me \in {InitialUsers[k] : k \in 1..2}
    /\ allUsers = <<>>
    /\ error = "" /\ loginAt = -1
    /\ storage \in StoredSnapshots
    /\ IdleCrud /\ IdleReset /\ IdleDamage

Pages ==
    CrudPages \cup {"users", "reset", "signin", "signup", "damage",
                    "dashboard"}

Init ==
    /\ page \in Pages
    /\ location = PathOf(page)
    /\ toast = NoToast
    /\ issued = 0
    /\ confirmAnswer = "none"
    /\ sent = {}
    /\ now = 0
    /\ timers = {}
    /\ srvVersion = 0
    /\ \/ InitCrud
       \/ InitUsers
       \/ InitReset
       \/ InitAuth
       \/ InitDamage
       \/ InitSignUp
       \/ InitDashboard

Next ==
    \/ \E i \in 1..Len(net) : ServeCrud(i)
    \/ \E i \in 1..Len(net) : \E r \in Outcomes(net[i]) :
          FetchItemsDone(i, r)
    \/ OpenForm
    \/ \E c \in ChangeInputs(page) : HandleChange(c[1], c[2])
    \/ HandleSubmit
    \/ \E i \in 1..Len(net) : \E r \in Outcomes(net[i]) :
          HandleSubmitDone(i, r)
    \/ \E k \in 1..Len(items) : HandleEdit(k)
    \/ \E k \in 1..Len(items), confirmed \in BOOLEAN :
          HandleDelete(k, confirmed)
    \/ \E i \in 1..Len(net) : \E r \in Outcomes(net[i]) :
          HandleDeleteDone(i, r)
    \/ HandleCancel
    \/ \E i \in 1..Len(net) : ServeUsers(i)
    \/ \E i \in 1..Len(net) : \E r \in Outcomes(net[i]) :
          FetchCurrentUserDone(i, r)
    \/ \E i \in 1..Len(net) : \E r \in Outcomes(net[i]) :
          FetchAllUsersDone(i, r)
    \/ \E k \in 1..Len(allUsers), newRole \in RoleInputs :
          HandleRoleChange(k, newRole)
    \/ \E i \in 1..Len(net) : \E r \in Outcomes(net[i]) :
          HandleRoleChangeDone(i, r)
    \/ \E k \in 1..Len(allUsers), confirmed \in BOOLEAN :
          HandleDeleteUser(k, confirmed)
    \/ \E i \in 1..Len(net) : \E r \in Outcomes(net[i]) :
          HandleDeleteUserDone(i, r)
    \/ \E i \in 1..Len(net) : ServeReset(i)
    \/ \E v \in EmailInputs : SetEmail(v)
    \/ \E v \in CodeInputs : SetCode(v)
    \/ \E v \in PasswordInputs : SetNewPassword(v)
    \/ \E v \in PasswordInputs : SetConfirmPassword(v)
    \/ HandleRequestCode
    \/ \E i \in 1..Len(net) : \E r \in Outcomes(net[i]) :
          HandleRequestCodeDone(i, r)
    \/ HandleVerifyCode
    \/ \E i \in 1..Len(net) : \E r \in Outcomes(net[i]) :
          HandleVerifyCodeDone(i, r)
    \/ ChangeEmail
    \/ HandleResetPassword
    \/ \E i \in 1..Len(net) : \E r \in Outcomes(net[i]) :
          HandleResetPasswordDone(i, r)
    \/ \E i \in 1..Len(net) : ServeLogin(i)
    \/ \E cred \in Credentials : HandleLogin(cred)
    \/ \E i \in 1..Len(net) : \E r \in Outcomes(net[i]) :
          HandleLoginDone(i, r)
    \/ \E i \in 1..Len(net) : ServeRegister(i)
    \/ HandleRegister
    \/ \E i \in 1..Len(net) : \E r \in Outcomes(net[i]) :
          HandleRegisterDone(i, r)
    \/ \E i \in 1..Len(net) : ServeDamage(i)
    \/ \E i \in 1..Len(net) : \E r \in Outcomes(net[i]) :
          FetchRoomsDamageDone(i, r)
    \/ \E i \in 1..Len(net) : \E r \in Outcomes(net[i]) :
          FetchDamageReportsDone(i, r)
    \/ \E v \in RoomInputs : SetSelectedRoom(v)
    \/ \E v \in AssetTypeInputs : SetAssetType(v)
    \/ \E v \in DescriptionInputs : SetDescription(v)
    \/ HandleSubmitDamage
    \/ \E i \in 1..Len(net) : \E r \in Outcomes(net[i]) :
          HandleSubmitDamageDone(i, r)
    \/ \E k \in 1..Len(damageReports) : \E s \in StatusInputs :
          HandleStatusChange(k, s)
    \/ \E i \in 1..Len(net) : \E r \in Outcomes(net[i]) :
          HandleStatusChangeDone(i, r)
    \/ \E k \in 1..Len(damageReports) : \E c \in BOOLEAN :
          HandleDeleteDamage(k, c)
    \/ \E i \in 1..Len(net) : \E r \in Outcomes(net[i]) :
          HandleDeleteDamageDone(i, r)
    \/ \E i \in 1..Len(net) : ServeDashboard(i)
    \/ \E i \in 1..Len(net) : \E r \in Outcomes(net[i]) :
          FetchDashboardDataDone(i, r)
    \/ \E i \in 1..Len(net) : \E r \in Outcomes(net[i]) :
          FetchCurrentUserDashboardDone(i, r)
    \/ \E target \in DashboardLinks \cup {"/user-management"} :
          NavigateFromDashboard(target)
    \/ HandleLogout
    \/ \E i \in 1..Len(net) : \E r \in Outcomes(net[i]) :
          HandleLogoutDone(i, r)
    \/ Tick
    \/ \E t \in timers : TimerFire(t)
    \/ ToastExpire

Spec == Init /\ [][Next]_vars

(***************************************************************************)
(* Properties.                                                             *)
(***************************************************************************)
\* the default form values as the specification states them
ClaimedDefaults ==
    IF page = "assets"
    THEN [name |-> "", asset_type |-> "Bed", total_quantity |-> 1,
          condition |-> "Good"]
    ELSE [room_number |-> "", hostel_name |-> "", floor |-> "",
          capacity |-> 2]

\* C1: when the create or update call of handleSubmit succeeds, the
\* continuation leaves the form hidden, editingTarget null and formData at
\* the defaults, whatever the form held and whatever happened in between.
C1_SubmitSuccessResetsForm ==
    [][\A i \in 1..Len(net) : \A r \in Outcomes(net[i]) :
          (HandleSubmitDone(i, r) /\ r.ok) =>
              /\ showForm' = FALSE
              /\ editingTarget' = NULL
              /\ formData' = ClaimedDefaults]_vars

\* an update was saved although the user had meanwhile changed the open form:
\* the form is reset all the same
C1_Witness ==
    /\ page \in CrudPages
    /\ submitOk
    /\ srvVersion = 1
    /\ Len(server) = 1
    /\ ~showForm
    /\ editingTarget = NULL
    /\ formData = ClaimedDefaults

\* C2 as stated: after a submit whose write succeeded, once the requests in
\* flight have settled, the displayed list is the server's list.
C2_ListIsServerList ==
    (page \in CrudPages /\ submitOk /\ net = <<>>) => items = server

\* C2 as amended: once the requests have settled, the displayed list is the
\* body of the list response that arrived last, and empty if that response
\* was a failure or not an array; it is the server's list when that response
\* was an array the server produced after its latest write.
C2_ListIsLastResponse ==
    (page \in CrudPages /\ submitOk /\ net = <<>>) =>
        /\ lastList.kind \in {"fail", "other"} => items = <<>>
        /\ (lastList.kind = "array" /\ lastList.ver = srvVersion) =>
               items = server

\* a create has succeeded, its reload arrived last, and the new item is shown
C2_Witness ==
    /\ page \in CrudPages
    /\ submitOk
    /\ net = <<>>
    /\ lastList = [kind |-> "array", ver |-> srvVersion]
    /\ Len(server) = 2
    /\ items = server

\* C5: on the user-management page a fetched identity that is not a Warden
\* means the page has navigated to /dashboard and no listUsers request was
\* ever issued; listUsers is issued only once a Warden identity was received.
C5_RoleGateBeforeList ==
    page = "users" =>
        /\ (user # NULL /\ user.role # "Warden") =>
               (location = "/dashboard" /\ <<"listUsers", 0>> \notin sent)
        /\ <<"listUsers", 0>> \in sent =>
               (user # NULL /\ user.role = "Warden")

\* a Sub-Warden has loaded the page and was sent to the dashboard
C5_Witness ==
    /\ page = "users"
    /\ user = [id |-> 2, role |-> "Sub-Warden"]
    /\ ~loading
    /\ net = <<>>
    /\ location = "/dashboard"

\* C6: the row of the authenticated user offers neither the role selector
\* nor the Delete button, every other row offers both, and no updateUser or
\* deleteUser request was ever issued with the authenticated user's id.
C6_SelfRowHasNoControls ==
    page = "users" =>
        /\ \A k \in 1..Len(allUsers) :
              /\ RoleControlOffered(allUsers[k]) <=> allUsers[k].id # me.id
              /\ DeleteControlOffered(allUsers[k]) <=> allUsers[k].id # me.id
        /\ \A s \in sent :
              s[1] \in {"updateUser", "deleteUser"} => s[2] # me.id

\* the table shows the Warden's own row and another one, and the other
\* row's controls have been used
C6_Witness ==
    /\ page = "users"
    /\ Rendered
    /\ \E k \in 1..Len(allUsers) : allUsers[k].id = me.id
    /\ \E k \in 1..Len(allUsers) : allUsers[k].id # me.id
    /\ \E s \in sent : s[1] = "updateUser"
    /\ \E s \in sent : s[1] = "deleteUser"

\* C3: handleCancel issues no request, puts the defaults in formData, clears
\* editingTarget, hides the form, and leaves the list and loading alone.
C3_CancelFrame ==
    [][HandleCancel =>
          /\ net' = net
          /\ formData' = ClaimedDefaults
          /\ editingTarget' = NULL
          /\ showForm' = FALSE
          /\ items' = items
          /\ loading' = loading]_vars

\* the form was cancelled while its update request is still in flight: only
\* handleCancel hides the form without a response having arrived
C3_Witness ==
    /\ page \in CrudPages
    /\ issued = 1
    /\ Len(net) = 1
    /\ net[1].op = "update"
    /\ net[1].body # ClaimedDefaults
    /\ ~showForm
    /\ editingTarget = NULL
    /\ formData = ClaimedDefaults

DeleteOps == {"delete", "deleteUser", "deleteReport"}

\* the delete requests in flight
DeletesInFlight(n) == {k \in 1..Len(n) : n[k].op \in DeleteOps}

\* C4: for each of the delete handlers (assets and rooms, users, damage
\* reports), a declined confirmation issues no request, shows no
\* notification and leaves the displayed list and the form state alone; and
\* whenever a delete request is added to the requests in flight, the
\* confirmation of that very step returned true.
C4_DeclinedDeleteIsNoOp ==
    [][/\ \A k \in 1..Len(items) :
             HandleDelete(k, FALSE) =>
                 UNCHANGED <<net, toast, items, showForm, editingTarget,
                             formData>>
       /\ \A k \in 1..Len(allUsers) :
             HandleDeleteUser(k, FALSE) =>
                 UNCHANGED <<net, toast, allUsers, user>>
       /\ \A k \in 1..Len(damageReports) :
             HandleDeleteDamage(k, FALSE) =>
                 UNCHANGED <<net, toast, damageReports, selectedRoom,
                             assetType, description>>
       /\ Cardinality(DeletesInFlight(net')) >
              Cardinality(DeletesInFlight(net)) =>
              confirmAnswer' = "ok"]_vars

\* the deletion of a room was declined while the form was open on that room:
\* nothing was requested, the room is still listed and the form still open
C4_Witness ==
    /\ page = "rooms"
    /\ confirmAnswer = "cancel"
    /\ issued = 0
    /\ net = <<>>
    /\ toast = NoToast
    /\ Len(items) = 1
    /\ showForm
    /\ editingTarget = items[1]

\* C7: in the reset flow the step is 3 only if a verify-code call has
\* succeeded since the page was mounted, and a reset-password request has
\* been issued only if one has.
C7_StepThreeNeedsVerification ==
    page = "reset" =>
        /\ step = 3 => verified
        /\ <<"resetPassword", 0>> \in sent => verified

\* the code was verified and a reset-password request is on its way
C7_Witness ==
    /\ page = "reset"
    /\ step = 3
    /\ verified
    /\ <<"resetPassword", 0>> \in sent
    /\ \E k \in 1..Len(net) : net[k].op = "resetPassword"

\* C8: submitting step 3 with a confirmation that differs from the new
\* password, or with a new password of fewer than 4 characters, issues no
\* request, shows an error notification, leaves loading as it was, leaves the
\* step at 3, and neither navigates nor schedules a navigation.
C8_InvalidPasswordIsRejected ==
    [][(/\ HandleResetPassword
        /\ (newPassword # confirmPassword \/ Len(newPassword) < 4)) =>
          /\ net' = net
          /\ sent' = sent
          /\ toast'.show /\ toast'.type = "error"
          /\ loading' = loading
          /\ step = 3 /\ step' = 3
          /\ location' = location
          /\ timers' = timers]_vars

\* a matching password of three characters was submitted and refused
C8_Witness ==
    /\ page = "reset"
    /\ step = 3
    /\ newPassword = <<"a", "b", "c">>
    /\ confirmPassword = newPassword
    /\ toast = ShowToast("Password must be at least 4 characters", "error")
    /\ <<"resetPassword", 0>> \notin sent
    /\ net = <<>>
    /\ ~loading

\* the text JSON.stringify gives for the user of the concrete scenario
WardenSnapshot == "{\"id\":1,\"role\":\"Warden\"}"

\* C9: when the login call succeeds, handleLogin stores the returned user
\* as JSON text under 'user' and schedules the navigation to /dashboard
\* 1500 ms later without navigating itself; and the page arrives at
\* /dashboard only when a snapshot is stored and at least 1500 ms have
\* passed since the first successful login.
C9_LoginStoresThenNavigates ==
    [][/\ \A i \in 1..Len(net) : \A r \in Outcomes(net[i]) :
             (HandleLoginDone(i, r) /\ r.ok) =>
                 /\ storage' = Stringify(r.object.user)
                 /\ r.object.user = [id |-> 1, role |-> "Warden"] =>
                        storage' = WardenSnapshot
                 /\ location' = location
                 /\ [navigate |-> "/dashboard", due |-> now + 1500]
                        \in timers'
       /\ (page = "signin" /\ location # "/dashboard"
             /\ location' = "/dashboard") =>
              /\ storage # ""
              /\ loginAt >= 0
              /\ now >= loginAt + 1500]_vars

\* warden1 logged in some time after the page was opened, and the page went
\* to the dashboard exactly 1500 ms later
C9_Witness ==
    /\ page = "signin"
    /\ location = "/dashboard"
    /\ storage = WardenSnapshot
    /\ loginAt > 0
    /\ now = loginAt + 1500
    /\ timers = {}

\* a text of spaces only, the empty text included
OnlyWhitespace(text) == \A k \in 1..Len(text) : text[k] = " "

\* C10: submitting the damage form with an empty or whitespace-only
\* description, or with no room selected, issues no request, shows an error
\* notification, and leaves the report list and the form fields unchanged.
C10_InvalidReportIsRejected ==
    [][(/\ HandleSubmitDamage
        /\ (OnlyWhitespace(description) \/ selectedRoom = "")) =>
          /\ net' = net
          /\ issued' = issued
          /\ toast'.show /\ toast'.type = "error"
          /\ UNCHANGED <<damageReports, rooms, selectedRoom, assetType,
                         description>>]_vars

\* a room was selected and a description of one space submitted: refused,
\* nothing sent, the fields as the user left them
C10_Witness ==
    /\ page = "damage"
    /\ selectedRoom = "1"
    /\ description = <<" ">>
    /\ toast = ShowToast("Please enter damage description", "error")
    /\ issued = 0
    /\ net = <<>>
    /\ Len(damageReports) = 1

\* C11 as stated: whenever the continuation of a data fetch of an
\* authenticated page (item list, current identity, user list, rooms of the
\* damage page, damage-report list, dashboard summary) receives a 401 or a
\* 403, the page navigates to /signin.
C11_AuthFailureRedirects ==
    [][\A i \in 1..Len(net) : \A r \in Outcomes(net[i]) :
          (/\ r.status \in {401, 403}
           /\ \/ FetchItemsDone(i, r)
              \/ FetchCurrentUserDone(i, r)
              \/ FetchAllUsersDone(i, r)
              \/ FetchRoomsDamageDone(i, r)
              \/ FetchDamageReportsDone(i, r)
              \/ FetchDashboardDataDone(i, r)
              \/ FetchCurrentUserDashboardDone(i, r)) =>
              location' = "/signin"]_vars

\* C12: on the assets and rooms pages every settled list fetch (an array, a
\* body that is not an array, an authentication failure, any other failure)
\* leaves loading false; and loading is true only while the fetch of the
\* mount effect is the one request in flight and nothing has been received.
C12_LoadingClearedByEveryFetch ==
    [][/\ \A i \in 1..Len(net) : \A r \in Outcomes(net[i]) :
             FetchItemsDone(i, r) => loading' = FALSE
       /\ (page \in CrudPages /\ loading') =>
              /\ Len(net') = 1
              /\ net'[1].op = "list"
              /\ issued' = 0
              /\ lastList'.kind = "none"]_vars

\* the first fetch was answered with a body that is not an array: the page
\* shows an empty list and is no longer loading
C12_Witness ==
    /\ page \in CrudPages
    /\ lastList.kind = "other"
    /\ issued = 0
    /\ net = <<>>
    /\ items = <<>>
    /\ ~loading

\* the message C13 expects for a failed save whose response carries the
\* error text e ("" when it carries none)
ClaimedSaveError(e) ==
    IF page = "assets"
    THEN (IF e # "" THEN e ELSE "Error saving asset")
    ELSE (IF e # "" THEN "Error saving room: " \o e
          ELSE "Error saving room: Unknown error")

\* C13: when the create or update call of handleSubmit fails, an error
\* notification carrying the server's message or the generic fallback is
\* shown, showForm, editingTarget, formData and the item list keep their
\* values, and no request (no reload) is issued.
C13_FailedSubmitKeepsForm ==
    [][\A i \in 1..Len(net) : \A r \in Outcomes(net[i]) :
          (HandleSubmitDone(i, r) /\ ~r.ok) =>
              /\ toast' = [show |-> TRUE, message |-> ClaimedSaveError(r.error),
                           type |-> "error"]
              /\ UNCHANGED <<showForm, editingTarget, formData, items>>
              /\ net' = Remove(net, i)]_vars

\* an edit was submitted and refused by the server with a message: the form
\* is still open on the item with the values the user entered
C13_Witness ==
    /\ page \in CrudPages
    /\ issued = 1
    /\ net = <<>>
    /\ ~submitOk
    /\ toast = [show |-> TRUE, message |-> ClaimedSaveError("Server says no"),
                type |-> "error"]
    /\ showForm
    /\ editingTarget # NULL
    /\ formData # ClaimedDefaults
    /\ items = server

\* the list requests among the requests n
ReloadsIn(n) == {k \in 1..Len(n) : n[k].op \in {"list", "listReports"}}

\* C14: when a confirmed delete request of the assets, rooms or damage page
\* fails, an error notification is shown, the list and the form state are
\* unchanged and no request is issued; when it succeeds, exactly one list
\* request is issued.
C14_DeleteOutcome ==
    [][\A i \in 1..Len(net) : \A r \in Outcomes(net[i]) :
          /\ (HandleDeleteDone(i, r) /\ ~r.ok) =>
                 /\ toast'.show /\ toast'.type = "error"
                 /\ UNCHANGED <<items, showForm, editingTarget, formData>>
                 /\ net' = Remove(net, i)
          /\ (HandleDeleteDamageDone(i, r) /\ ~r.ok) =>
                 /\ toast'.show /\ toast'.type = "error"
                 /\ UNCHANGED <<damageReports, selectedRoom, assetType,
                                description>>
                 /\ net' = Remove(net, i)
          /\ ((HandleDeleteDone(i, r) \/ HandleDeleteDamageDone(i, r))
                 /\ r.ok) =>
                 /\ Len(net') = Len(net)
                 /\ Cardinality(ReloadsIn(net')) =
                        Cardinality(ReloadsIn(net)) + 1]_vars

\* the deletion of the one asset was confirmed and then refused by the
\* server: the asset is still listed and nothing is in flight
C14_Witness ==
    /\ page = "assets"
    /\ confirmAnswer = "ok"
    /\ toast = ShowToast("Error deleting asset", "error")
    /\ issued = 1
    /\ net = <<>>
    /\ Len(items) = 1
    /\ items = server

\* C15: when the login call fails, handleLogin sets error to the server's
\* message if the response carries one and to the generic fallback
\* otherwise, schedules no navigation, does not navigate, leaves local
\* storage alone and sets loading to false.
C15_FailedLoginSetsError ==
    [][\A i \in 1..Len(net) : \A r \in Outcomes(net[i]) :
          (HandleLoginDone(i, r) /\ ~r.ok) =>
              /\ error' = (IF r.error # "" THEN r.error
                           ELSE "Login failed. Check your username and password.")
              /\ UNCHANGED <<timers, location, storage>>
              /\ loading' = FALSE]_vars

\* one login was attempted and refused with the server's message
C15_Witness ==
    /\ page = "signin"
    /\ issued = 1
    /\ net = <<>>
    /\ error = "Server says no"
    /\ storage = ""
    /\ timers = {}
    /\ location = "/signin"
    /\ ~loading

\* the first detail C16 expects from a rejection body: the flat error
\* field, else the first entry of the validation array of whichever field
\* the server reports, else the generic fallback
ClaimedRegisterError(body) ==
    IF body.error # "" THEN body.error
    ELSE IF body.username # <<>> THEN body.username[1]
    ELSE IF body.email # <<>> THEN body.email[1]
    ELSE "Registration failed. Please check your details."

\* C16 as stated: when the register call fails, the error displayed is the
\* first available detail of the response (the flat error field, else the
\* first entry of a field's validation array, for whichever field the
\* server reports, else the generic fallback) and no navigation is
\* scheduled.
C16_RegisterShowsFirstDetail ==
    [][\A i \in 1..Len(net) : \A r \in Outcomes(net[i]) :
          (HandleRegisterDone(i, r) /\ ~r.ok) =>
              /\ error' = ClaimedRegisterError(r.body)
              /\ UNCHANGED <<timers, location>>]_vars

\* C17 as stated: in the reset flow the step is always 1, 2 or 3, and it
\* changes only from 1 to 2 when a request-code call succeeds, from 2 to 3
\* when a verify-code call succeeds, and from 2 to 1 by Change Email; a
\* failed call never changes it.
C17_StepTransitions ==
    [][page = "reset" =>
          /\ step \in {1, 2, 3} /\ step' \in {1, 2, 3}
          /\ step' # step =>
                \/ /\ step = 1 /\ step' = 2
                   /\ \E i \in 1..Len(net) : \E r \in Outcomes(net[i]) :
                         HandleRequestCodeDone(i, r) /\ r.ok
                \/ /\ step = 2 /\ step' = 3
                   /\ \E i \in 1..Len(net) : \E r \in Outcomes(net[i]) :
                         HandleVerifyCodeDone(i, r) /\ r.ok
                \/ /\ step = 2 /\ step' = 1
                   /\ ChangeEmail]_vars

\* the listUsers request a write handler issues after a success
ClaimedRefetch == Request("listUsers", 0, NoBody, FALSE)

\* C18: on the user-management page the displayed user list changes only in
\* the step in which a listUsers response is delivered; a role change or a
\* deletion that succeeded issues one listUsers request and leaves the list
\* as it is, and one that failed issues no request and leaves the list as it
\* is.
C18_UserListOnlyRefetched ==
    [][page = "users" =>
          /\ allUsers' # allUsers =>
                \E i \in 1..Len(net) : \E r \in Outcomes(net[i]) :
                    FetchAllUsersDone(i, r)
          /\ \A i \in 1..Len(net) : \A r \in Outcomes(net[i]) :
                (HandleRoleChangeDone(i, r) \/ HandleDeleteUserDone(i, r)) =>
                    /\ allUsers' = allUsers
                    /\ net' = IF r.ok
                              THEN Append(Remove(net, i), ClaimedRefetch)
                              ELSE Remove(net, i)]_vars

\* a user was deleted on the server and the refetch is still in flight: the
\* table still shows the deleted row
C18_Witness ==
    /\ page = "users"
    /\ Len(server) = 2
    /\ Len(allUsers) = 3
    /\ toast = ShowToast("User deleted successfully!", "success")
    /\ net = <<ClaimedRefetch>>

WriteOps ==
    {"create", "update", "delete", "updateUser", "deleteUser",
     "createReport", "updateReport", "deleteReport", "login", "register",
     "requestReset", "verifyCode", "resetPassword"}

WritesIn(n) == {k \in 1..Len(n) : n[k].op \in WriteOps}

\* the continuation of a write call receives r for request i
WriteDone(i, r) ==
    \/ HandleSubmitDone(i, r) \/ HandleDeleteDone(i, r)
    \/ HandleRoleChangeDone(i, r) \/ HandleDeleteUserDone(i, r)
    \/ HandleSubmitDamageDone(i, r) \/ HandleStatusChangeDone(i, r)
    \/ HandleDeleteDamageDone(i, r)
    \/ HandleLoginDone(i, r) \/ HandleRegisterDone(i, r)
    \/ HandleRequestCodeDone(i, r) \/ HandleVerifyCodeDone(i, r)
    \/ HandleResetPasswordDone(i, r)

\* C20: a write request comes into flight only in a step that is a user
\* action, which adds exactly that one request; and when a write call
\* fails, its continuation issues no request at all, so nothing is retried.
C20_FireOnce ==
    [][/\ Cardinality(WritesIn(net')) > Cardinality(WritesIn(net)) =>
              /\ issued' = issued + 1
              /\ Len(net') = Len(net) + 1
              /\ SubSeq(net', 1, Len(net)) = net
       /\ \A i \in WritesIn(net) :
             \/ net' = Remove(net, i)
             \/ \A r \in Outcomes(net[i]) : r.ok \/ ~WriteDone(i, r)]_vars

\* a request for a reset code failed: one request was issued, nothing is in
\* flight and the flow is where it was
C20_Witness ==
    /\ page = "reset"
    /\ issued = 1
    /\ sent = {<<"requestReset", 0>>}
    /\ net = <<>>
    /\ step = 1
    /\ toast = ShowToast("Failed to send reset code", "error")
    /\ ~loading

C21_WitnessGate ==
    /\ page = "users"
    /\ storage = "{\"id\":1,\"role\":\"Warden\"}"
    /\ me.role = "Sub-Warden"
    /\ location = "/dashboard"
    /\ sent = {}

\* C22 as stated: when the create call of the damage form succeeds, the form
\* state is back at its defaults (selected room '', asset type 'Bed',
\* description '') and one reload of the report list is issued.
C22_DamageSubmitResetsForm ==
    [][\A i \in 1..Len(net) : \A r \in Outcomes(net[i]) :
          (HandleSubmitDamageDone(i, r) /\ r.ok) =>
              /\ selectedRoom' = ""
              /\ assetType' = "Bed"
              /\ description' = <<>>
              /\ net' = Append(Remove(net, i),
                               Request("listReports", 0, NoBody, FALSE))]_vars

\* C23: on the assets and rooms pages, when a list fetch fails with a status
\* other than 401 and 403 (or with no response), the item list is empty
\* afterwards and the route is unchanged; the toast changes only if the
\* fetch was given a notifier, and then to 'Failed to load assets'; and a
\* fetch has a notifier only on the assets page and only after a request of
\* the user, so never for the fetch of the mount effect and never for rooms.
C23_OtherFetchFailure ==
    [][\A i \in 1..Len(net) : \A r \in Outcomes(net[i]) :
          (FetchItemsDone(i, r) /\ ~r.ok /\ r.status \notin {401, 403}) =>
              /\ items' = <<>>
              /\ location' = location
              /\ toast' = (IF net[i].notifier
                           THEN [show |-> TRUE,
                                 message |-> "Failed to load assets",
                                 type |-> "error"]
                           ELSE toast)
              /\ net[i].notifier => (page = "assets" /\ issued > 0)]_vars

\* the reload after a created asset got no response: the list is empty, the
\* page is still the assets page and the notification is shown
C23_Witness ==
    /\ page = "assets"
    /\ submitOk
    /\ Len(server) = 2
    /\ net = <<>>
    /\ lastList.kind = "fail"
    /\ items = <<>>
    /\ location = "/assets"
    /\ toast = ShowToast("Failed to load assets", "error")

\* the reload after a created room failed: the list is empty and the only
\* notification is that of the save
C23_WitnessRooms ==
    /\ page = "rooms"
    /\ submitOk
    /\ net = <<>>
    /\ lastList.kind = "fail"
    /\ items = <<>>
    /\ location = "/rooms"
    /\ toast = ShowToast("Room created successfully!", "success")

\* C24: handleSubmit puts exactly one request in flight, after those already
\* there: a create when editingTarget is null, otherwise an update addressed
\* to editingTarget's id; its body is the formData of the moment of the
\* submit.
C24_SubmitCreatesOrUpdates ==
    [][HandleSubmit =>
          /\ Len(net') = Len(net) + 1
          /\ SubSeq(net', 1, Len(net)) = net
          /\ net'[Len(net')].body = formData
          /\ (editingTarget = NULL) <=> (net'[Len(net')].op = "create")
          /\ editingTarget # NULL =>
                /\ net'[Len(net')].op = "update"
                /\ net'[Len(net')].id = editingTarget.id]_vars

\* a room was opened for editing, its floor changed and the form submitted:
\* an update for that room with the changed floor is in flight
C24_Witness ==
    /\ page = "rooms"
    /\ issued = 1
    /\ editingTarget # NULL
    /\ formData.floor = "1"
    /\ \E k \in 1..Len(net) :
          /\ net[k].op = "update"
          /\ net[k].id = editingTarget.id
          /\ net[k].body = formData
    /\ \A k \in 1..Len(net) : net[k].op # "create"

\* the form fields C25 expects after handleEdit(item): the item's values,
\* with '' for a room's null floor
ClaimedFormOf(item) ==
    IF page = "assets"
    THEN [name |-> item.name, asset_type |-> item.asset_type,
          total_quantity |-> item.total_quantity,
          condition |-> item.condition]
    ELSE [room_number |-> item.room_number, hostel_name |-> item.hostel_name,
          floor |-> IF item.floor = "null" THEN "" ELSE item.floor,
          capacity |-> item.capacity]

\* C25 as stated: handleEdit(item), from any state, makes item the one
\* editingTarget, shows the form, overwrites every form field with the
\* item's value (a null floor becomes '') and issues no request.
C25_EditCopiesItem ==
    [][\A k \in 1..Len(items) :
          HandleEdit(k) =>
              /\ editingTarget' = items[k]
              /\ showForm' = TRUE
              /\ formData' = ClaimedFormOf(items[k])
              /\ net' = net /\ issued' = issued]_vars

\* C26: handleChange(name, value) sets the form field name to value and
\* leaves every other form field, editingTarget, the visibility of the
\* form, the item list, loading and the requests in flight as they were,
\* in whatever state it is called.
C26_ChangeFrame ==
    [][\A c \in ChangeInputs(page) :
          HandleChange(c[1], c[2]) =>
              /\ DOMAIN formData' = DOMAIN formData
              /\ formData'[c[1]] = c[2]
              /\ \A f \in DOMAIN formData \ {c[1]} :
                    formData'[f] = formData[f]
              /\ UNCHANGED <<editingTarget, showForm, items, loading, net,
                             issued>>]_vars

\* an asset was opened for editing and its name changed: the other fields
\* still hold the asset's values and the asset is still the editing target
C26_Witness ==
    /\ page = "assets"
    /\ showForm
    /\ issued = 0
    /\ Len(items) = 1
    /\ editingTarget = items[1]
    /\ formData = [name |-> "Desk", asset_type |-> "Bed",
                   total_quantity |-> 4, condition |-> "Good"]

\* C27: handleStatusChange(reportId, newStatus) puts one update request for
\* reportId in flight, whose body is the displayed report with that id with
\* newStatus as its status and every other field as displayed; neither the
\* handler nor its continuation changes the displayed list; the
\* continuation issues one reload of the list on success and no request on
\* failure.
C27_StatusChange ==
    [][/\ \A k \in 1..Len(damageReports) : \A s \in StatusInputs :
             HandleStatusChange(k, s) =>
                 /\ Len(net') = Len(net) + 1
                 /\ SubSeq(net', 1, Len(net)) = net
                 /\ net'[Len(net')].op = "updateReport"
                 /\ net'[Len(net')].id = damageReports[k].id
                 /\ DOMAIN net'[Len(net')].body = DOMAIN damageReports[k]
                 /\ net'[Len(net')].body.status = s
                 /\ \A f \in DOMAIN damageReports[k] \ {"status"} :
                       net'[Len(net')].body[f] = damageReports[k][f]
                 /\ damageReports' = damageReports
       /\ \A i \in 1..Len(net) : \A r \in Outcomes(net[i]) :
             HandleStatusChangeDone(i, r) =>
                 /\ damageReports' = damageReports
                 /\ net' = IF r.ok
                           THEN Append(Remove(net, i),
                                       Request("listReports", 0, NoBody,
                                               FALSE))
                           ELSE Remove(net, i)]_vars

\* a report was marked Fixed and the server has stored it, the reload is
\* still in flight: the page still shows the report as Not Fixed
C27_Witness ==
    /\ page = "damage"
    /\ issued = 1
    /\ toast = ShowToast("Status updated successfully!", "success")
    /\ net = <<Request("listReports", 0, NoBody, FALSE)>>
    /\ server = <<[InitialReports[1] EXCEPT !.status = "Fixed"]>>
    /\ damageReports = InitialReports

\* C28: on the assets and rooms pages a non-null editingTarget implies that
\* the form is visible, in every reachable state.
C28_TargetImpliesVisibleForm ==
    page \in CrudPages => (editingTarget # NULL => showForm)

\* the form is open on an item whose deletion was confirmed and is in
\* flight
C28_Witness ==
    /\ page \in CrudPages
    /\ editingTarget # NULL
    /\ showForm
    /\ Len(net) = 1
    /\ net[1].op = "delete"
    /\ net[1].id = editingTarget.id

\* C29 as stated: the email and code sent with the reset-password request
\* are those of the verify-code request whose success moved the flow to
\* step 3.  The reset-password request carries the email and code the page
\* holds when step 3 is submitted, and neither changes while the step is 3;
\* so the statement is that the email and code the page holds when a
\* successful verification moves the flow to step 3 are those of that
\* verify-code request.
C29_ResetUsesVerifiedPair ==
    [][page = "reset" =>
          /\ \A i \in 1..Len(net) : \A r \in Outcomes(net[i]) :
                (HandleVerifyCodeDone(i, r) /\ r.ok /\ step # 3) =>
                    /\ step' = 3
                    /\ email' = net[i].body.email
                    /\ code' = net[i].body.code
          /\ (step = 3 /\ step' = 3) => (email' = email /\ code' = code)
          /\ (HandleResetPassword /\ Len(net') > Len(net)) =>
                /\ net'[Len(net')].body.email = email
                /\ net'[Len(net')].body.code = code]_vars

\* C30 as stated: on the assets and rooms pages, whenever editingTarget is
\* non-null an item with its id is in the displayed list (an update is
\* addressed to editingTarget's id, so it is then only issued for a
\* displayed id), also after deletes and reloads that happen while the edit
\* form is open.
C30_TargetIsDisplayed ==
    page \in CrudPages =>
        (editingTarget # NULL => HasId(items, editingTarget.id))

====
